---- MODULE Spec2Model ----
(***************************************************************************)
(* The application state reducer of src/app/state/app_state.rs:            *)
(* AppState::update_state (one action per match arm), forward_action, and  *)
(* the URI-intent parser AppAction::OpenURI.                                *)
(*                                                                         *)
(* The five substates (playback, browser, selection, login, settings) live *)
(* in other modules of the crate; only their callers are in app_state.rs.  *)
(* Their operations are modelled from the contract the specification       *)
(* gives them (spec.md, sections 4.2 and 6).                               *)
(***************************************************************************)
EXTENDS Integers, Sequences, FiniteSets, TLC

VARIABLES
    started,      \* AppState.started
    playback,     \* AppState.playback: the playback queue
    browser,      \* AppState.browser: home view presence and opaque content
    selection,    \* AppState.selection: buffer, mode, context
    logged_user,  \* AppState.logged_user (opaque)
    settings,     \* AppState.settings (opaque)
    action,       \* the message of the last update_state call
    events,       \* the Vec<AppEvent> the last update_state call returned
    calls,        \* the substate update_with calls of the last dispatch, in order
    aborted,      \* the last update_state call panicked (Option::unwrap on None)
    startCount,   \* number of Start messages dispatched so far (saturating)
    taken,        \* the tracks the last call drained from the selection
    modeBefore,   \* the selection mode the last set_mode call found
    library,      \* the songs that exist in this run (fixed by Init)
    uri,          \* the last string given to AppAction::OpenURI
    parsed        \* what AppAction::OpenURI returned for it

state == <<started, playback, browser, selection, logged_user, settings>>
vars == <<started, playback, browser, selection, logged_user, settings,
          action, events, calls, aborted, startCount, taken, modeBefore,
          library, uri, parsed>>

----------------------------------------------------------------------------
(* Bounds of the model *)

MaxQueue == 3
MaxSubEvents == 2
MaxStarts == 2
MaxSegs == 4

(* Small value domains *)
SongIds == {"A", "B", "C"}
OneSong == {"A"}
TwoSongs == {"A", "B"}
Contexts == {"Queue", "Playlist"}
Texts == {"x", "y"}
PlaylistIds == {"pl1", "pl2"}
SubActionNames == {"a1", "a2"}
OpaqueStates == {0, 1}

None == [tag |-> "None", val |-> <<>>]
Some(v) == [tag |-> "Some", val |-> v]

----------------------------------------------------------------------------
(* Values *)

SongDescription(id) == [id |-> id]

PlaylistDescription(id) == [id |-> id, songs |-> <<>>, title |-> "t"]

(* impl From<PlaylistDescription> for PlaylistSummary, used by .into() *)
PlaylistSummary(p) == [id |-> p.id, title |-> p.title]

Act(tag, val) == [tag |-> tag, val |-> val]

Ev(tag, val) == [tag |-> tag, val |-> val]

Started == Ev("Started", <<>>)
Raised == Ev("Raised", <<>>)
NowPlayingShown == Ev("NowPlayingShown", <<>>)
NotificationShown(c) == Ev("NotificationShown", c)
PlaylistCreatedNotificationShown(id) == Ev("PlaylistCreatedNotificationShown", id)
SelectionModeChanged(b) == Ev("SelectionEvent", Ev("SelectionModeChanged", b))
PlaylistChanged == Ev("PlaybackEvent", Ev("PlaylistChanged", <<>>))

(* The substates' own events are opaque: the i-th event of one update_with call. *)
SubEvent(i) == Ev("SubEvent", i)

(* One update_with call returns no event, or MaxSubEvents of them in order. *)
SubEventSeqs == {[i \in 1..n |-> SubEvent(i)] : n \in {0, MaxSubEvents}}

(* E: Into<AppEvent> for the five substate event types. *)
Lift(wrapper, e) == Ev(wrapper, e)

EventWrapper(target) ==
    CASE target = "playback" -> "PlaybackEvent"
      [] target = "browser" -> "BrowserEvent"
      [] target = "home" -> "BrowserEvent"
      [] target = "selection" -> "SelectionEvent"
      [] target = "logged_user" -> "LoginEvent"
      [] target = "settings" -> "SettingsEvent"

----------------------------------------------------------------------------
(* Sequences *)

Range(s) == {s[i] : i \in 1..Len(s)}

(* The first track's id left out. *)
Ids_Tail(tracks) == [i \in 1..(Len(tracks) - 1) |-> tracks[i + 1].id]

Ids(tracks) == [i \in 1..Len(tracks) |-> tracks[i].id]

Positions(q, id) == {i \in 1..Len(q) : q[i].id = id}

FirstPosition(q, id) == CHOOSE i \in Positions(q, id) : \A j \in Positions(q, id) : i <= j

Swap(q, i, j) == [q EXCEPT ![i] = q[j], ![j] = q[i]]

SeqsUpTo(S, n) == UNION {[1..k -> S] : k \in 0..n}

Distinct(s) == \A i, j \in 1..Len(s) : i /= j => s[i] /= s[j]

----------------------------------------------------------------------------
(* The substates' contracts (spec.md section 6).  Their code is in other    *)
(* modules of the crate; app_state.rs holds only the calls.                  *)

(* SelectionState::default() *)
DefaultSelection == [songs |-> <<>>, active |-> FALSE, context |-> "None"]

(* The buffer holds each picked song once, and only while the mode is active. *)
SelectionStates(songs) ==
    {DefaultSelection} \cup
    {[songs |-> s, active |-> TRUE, context |-> c] :
        s \in {t \in SeqsUpTo({SongDescription(i) : i \in songs}, Cardinality(songs)) : Distinct(t)},
        c \in Contexts}

(* drain-selection: the buffer is emptied and its contents returned; the     *)
(* selection mode ends with it (the reducer reports SelectionModeChanged(false)). *)
take_selection(sel) == [state |-> DefaultSelection, ret |-> sel.songs]

(* peek-selection-as-cursor: the buffer's items in order, nothing consumed. *)
peek_selection(sel) == sel.songs

(* set-mode(optional context) -> optional previous-active-flag: None when   *)
(* the request is a no-op (enabling the context already active, cancelling  *)
(* an inactive mode), otherwise the active flag the call found. Enabling    *)
(* sets the mode and its context; cancelling ends the mode.                 *)
set_mode(sel, ctx) ==
    IF ctx.tag = "Some"
    THEN IF sel.active /\ sel.context = ctx.val
         THEN [state |-> sel, ret |-> None]
         ELSE [state |-> [songs |-> sel.songs, active |-> TRUE, context |-> ctx.val],
               ret |-> Some(sel.active)]
    ELSE IF sel.active
         THEN [state |-> DefaultSelection, ret |-> Some(TRUE)]
         ELSE [state |-> sel, ret |-> None]

PlaybackStates(songs) == SeqsUpTo({SongDescription(i) : i \in songs}, MaxQueue)

(* enqueue: the tracks are added at the end of the queue, in order. *)
queue(q, tracks) == q \o tracks

(* dequeue-by-identifiers: every item with one of the ids leaves the queue. *)
dequeue(q, ids) == SelectSeq(q, LAMBDA t : t.id \notin Range(ids))

(* move-item-up-by-id: fails only when the id is not in the queue. *)
move_up(q, id) ==
    IF Positions(q, id) = {}
    THEN [state |-> q, ret |-> None]
    ELSE LET i == FirstPosition(q, id)
         IN [state |-> IF i > 1 THEN Swap(q, i - 1, i) ELSE q,
             ret |-> Some(i)]

(* move-item-down-by-id: fails only when the id is not in the queue. *)
move_down(q, id) ==
    IF Positions(q, id) = {}
    THEN [state |-> q, ret |-> None]
    ELSE LET i == FirstPosition(q, id)
         IN [state |-> IF i < Len(q) THEN Swap(q, i, i + 1) ELSE q,
             ret |-> Some(i)]

(* BrowserState: the home view may be absent; the rest is opaque. *)
BrowserStates == [home : BOOLEAN, view : OpaqueStates]

(* BrowserState::new() *)
NewBrowser == [home |-> TRUE, view |-> 0]

(* home_state_mut(): Option<&mut HomeState> *)
home_state_mut(b) == IF b.home THEN Some(b.view) ELSE None

(* update_with(action) -> events of one substate: the substate's own logic  *)
(* is outside this module, so any next substate and any event sequence.      *)
UpdateWith(target, s, a) ==
    LET next == CASE target = "playback" -> PlaybackStates(library)
                  [] target = "browser" -> BrowserStates
                  [] target = "home" -> {[s EXCEPT !.view = v] : v \in OpaqueStates}
                  [] target = "selection" -> SelectionStates(library)
                  [] target = "logged_user" -> OpaqueStates
                  [] target = "settings" -> OpaqueStates
    IN {[events |-> e, state |-> n] : n \in next, e \in SubEventSeqs}

----------------------------------------------------------------------------
(* forward_action: update_with on the target, each event lifted by into(). *)

(* The events collected in the opposite order. *)
forward_action_Reversed(a, target, s) ==
    {[events |-> [i \in 1..Len(o.events) |->
                    Lift(EventWrapper(target), o.events[Len(o.events) + 1 - i])],
      state |-> o.state,
      call |-> [action |-> a, target |-> target, returned |-> o.events]] :
        o \in UpdateWith(target, s, a)}

forward_action(a, target, s) ==
    {[events |-> [i \in 1..Len(o.events) |-> Lift(EventWrapper(target), o.events[i])],
      state |-> o.state,
      call |-> [action |-> a, target |-> target, returned |-> o.events]] :
        o \in UpdateWith(target, s, a)}

----------------------------------------------------------------------------
NoMode == [active |-> FALSE, context |-> "None"]

ModeOf(sel) == [active |-> sel.active, context |-> sel.context]

(* AppState::new() *)

Fresh ==
    /\ started = FALSE
    /\ playback = <<>>
    /\ browser = NewBrowser
    /\ selection = DefaultSelection
    /\ logged_user = 0
    /\ settings = 0
    /\ action = Act("None", <<>>)
    /\ events = <<>>
    /\ calls = <<>>
    /\ aborted = FALSE
    /\ startCount = 0
    /\ taken = <<>>
    /\ modeBefore = NoMode
    /\ uri = <<>>
    /\ parsed = None

(* The whole reducer, over a library of one song. *)
Init == Fresh /\ library = OneSong

(* The arms that work on the selection and the playback queue, over three songs. *)
InitQueue == Fresh /\ library = SongIds

(* update_state returns evs for message a, having made the calls cs. *)
Return(a, evs, cs, tracks, mode) ==
    /\ ~aborted
    /\ taken' = tracks
    /\ modeBefore' = mode
    /\ action' = a
    /\ events' = evs
    /\ calls' = cs
    /\ aborted' = FALSE
    /\ startCount' = IF a.tag = "Start" /\ startCount < MaxStarts
                     THEN startCount + 1 ELSE startCount
    /\ UNCHANGED <<library, uri, parsed>>

(* update_state panics on message a: nothing is returned. *)
Abort(a, cs, tracks) ==
    /\ ~aborted
    /\ taken' = tracks
    /\ modeBefore' = NoMode
    /\ action' = a
    /\ events' = <<>>
    /\ calls' = cs
    /\ aborted' = TRUE
    /\ UNCHANGED <<startCount, library, uri, parsed>>

----------------------------------------------------------------------------
(* Pieces of the match arms of update_state *)

(* Start accepted whatever the flag. *)
StartGuard_Always == TRUE

(* AppAction::Start if !self.started *)
StartGuard == ~started

(* The notification text replaced by a fixed one. *)
NotificationEvents_Fixed(c) == <<NotificationShown("x")>>

(* vec![AppEvent::NotificationShown(c)] *)
NotificationEvents(c) == <<NotificationShown(c)>>

(* The two events in the other order. *)
SelectionQueuedEvents_Swapped == <<PlaylistChanged, SelectionModeChanged(FALSE)>>

(* the vec! of QueueSelection and DequeueSelection *)
SelectionQueuedEvents == <<SelectionModeChanged(FALSE), PlaylistChanged>>

(* The cursor read from its far end. *)
CursorNext_Last(cursor) == IF cursor = <<>> THEN None ELSE Some(cursor[Len(cursor)])

(* selection.next() on a fresh cursor *)
CursorNext(cursor) == IF cursor = <<>> THEN None ELSE Some(Head(cursor))

(* No event even when the move call returned a value. *)
MoveEvents_Never(r) == <<>>

(* .map(|_| vec![PlaylistChanged]).unwrap_or_else(Vec::new) *)
MoveEvents(r) == IF r.tag = "Some" THEN <<PlaylistChanged>> ELSE <<>>

(* An event even when set_mode reports no transition. *)
ModeEvents_Always(r) == <<SelectionModeChanged(r.tag = "Some")>>

(* No event even when set_mode reports a transition. *)
ModeEvents_Never(r) == <<>>

(* if let Some(active) = set_mode(..) { vec![SelectionModeChanged(active)] } else { vec![] } *)
ModeEvents(r) == IF r.tag = "Some" THEN <<SelectionModeChanged(r.val)>> ELSE <<>>

(* unwrap_or_default-like: never panics. *)
Unwraps_Lenient(o) == TRUE

(* Option::unwrap returns on Some and panics on None *)
Unwraps(o) == o.tag = "Some"

(* The mode event put before the home view's events. *)
SavedEvents_First(evs) == <<SelectionModeChanged(FALSE)>> \o evs

(* events.push(SelectionModeChanged(false)) after the home view's events *)
SavedEvents(evs) == Append(evs, SelectionModeChanged(FALSE))

(* The browser's events put before the session's. *)
CreatePlaylistEvents_Swapped(evs, more, id) ==
    more \o evs \o <<PlaylistCreatedNotificationShown(id)>>

(* events.append(&mut more_events); events.push(PlaylistCreatedNotificationShown(id)) *)
CreatePlaylistEvents(evs, more, id) == evs \o more \o <<PlaylistCreatedNotificationShown(id)>>

(* The browser's events put before the session's. *)
UpdatePlaylistEvents_Swapped(evs, more) == more \o evs

(* events.append(&mut more_events) *)
UpdatePlaylistEvents(evs, more) == evs \o more

----------------------------------------------------------------------------
(* The match arms of update_state, in source order *)

Start ==
    /\ StartGuard
    /\ started' = TRUE
    /\ UNCHANGED <<playback, browser, selection, logged_user, settings>>
    /\ Return(Act("Start", <<>>), <<Started>>, <<>>, <<>>, NoMode)

ShowNotification ==
    \E c \in Texts :
        /\ UNCHANGED state
        /\ Return(Act("ShowNotification", c), NotificationEvents(c), <<>>, <<>>, NoMode)

ViewNowPlaying ==
    /\ UNCHANGED state
    /\ Return(Act("ViewNowPlaying", <<>>), <<NowPlayingShown>>, <<>>, <<>>, NoMode)

Raise ==
    /\ UNCHANGED state
    /\ Return(Act("Raise", <<>>), <<Raised>>, <<>>, <<>>, NoMode)

QueueSelection ==
    LET t == take_selection(selection)
    IN /\ selection' = t.state
       /\ playback' = queue(playback, t.ret)
       /\ UNCHANGED <<started, browser, logged_user, settings>>
       /\ Return(Act("QueueSelection", <<>>), SelectionQueuedEvents, <<>>, t.ret, NoMode)

DequeueSelection ==
    LET t == take_selection(selection)
        tracks == Ids(t.ret)
    IN /\ selection' = t.state
       /\ playback' = dequeue(playback, tracks)
       /\ UNCHANGED <<started, browser, logged_user, settings>>
       /\ Return(Act("DequeueSelection", <<>>), SelectionQueuedEvents, <<>>, t.ret, NoMode)

MoveDownSelection ==
    LET song == CursorNext(peek_selection(selection))
        moved == IF song.tag = "Some"
                 THEN move_down(playback, song.val.id)
                 ELSE [state |-> playback, ret |-> None]
    IN /\ playback' = moved.state
       /\ UNCHANGED <<started, browser, selection, logged_user, settings>>
       /\ Return(Act("MoveDownSelection", <<>>), MoveEvents(moved.ret), <<>>, <<>>, NoMode)

MoveUpSelection ==
    LET song == CursorNext(peek_selection(selection))
        moved == IF song.tag = "Some"
                 THEN move_up(playback, song.val.id)
                 ELSE [state |-> playback, ret |-> None]
    IN /\ playback' = moved.state
       /\ UNCHANGED <<started, browser, selection, logged_user, settings>>
       /\ Return(Act("MoveUpSelection", <<>>), MoveEvents(moved.ret), <<>>, <<>>, NoMode)

(* Save/UnsaveSelection: the selection is taken first, then the home view   *)
(* is unwrapped: on None the call panics with the selection already taken.  *)
ForwardToHome(msg, sub) ==
    LET t == take_selection(selection)
        a == Act(sub, IF sub = "SaveTracks" THEN t.ret ELSE Ids(t.ret))
    IN /\ selection' = t.state
       /\ UNCHANGED <<started, playback, logged_user, settings>>
       /\ IF Unwraps(home_state_mut(browser))
          THEN \E o \in forward_action(a, "home", browser) :
                  /\ browser' = o.state
                  /\ Return(Act(msg, <<>>), SavedEvents(o.events), <<o.call>>, t.ret, NoMode)
          ELSE /\ UNCHANGED browser
               /\ Abort(Act(msg, <<>>), <<>>, t.ret)

SaveSelection == ForwardToHome("SaveSelection", "SaveTracks")

UnsaveSelection == ForwardToHome("UnsaveSelection", "RemoveSavedTracks")

EnableSelection ==
    \E context \in Contexts :
        LET m == set_mode(selection, Some(context))
        IN /\ selection' = m.state
           /\ UNCHANGED <<started, playback, browser, logged_user, settings>>
           /\ Return(Act("EnableSelection", context), ModeEvents(m.ret), <<>>,
                     <<>>, ModeOf(selection))

CancelSelection ==
    LET m == set_mode(selection, None)
    IN /\ selection' = m.state
       /\ UNCHANGED <<started, playback, browser, logged_user, settings>>
       /\ Return(Act("CancelSelection", <<>>), ModeEvents(m.ret), <<>>,
                 <<>>, ModeOf(selection))

CreatePlaylist ==
    \E pid \in PlaylistIds :
        LET playlist == PlaylistDescription(pid)
            id == playlist.id
        IN \E o1 \in forward_action(Act("PrependUserPlaylist", <<PlaylistSummary(playlist)>>),
                                    "logged_user", logged_user) :
           \E o2 \in forward_action(Act("PrependPlaylistsContent", <<playlist>>),
                                    "browser", browser) :
              /\ logged_user' = o1.state
              /\ browser' = o2.state
              /\ UNCHANGED <<started, playback, selection, settings>>
              /\ Return(Act("CreatePlaylist", playlist),
                        CreatePlaylistEvents(o1.events, o2.events, id),
                        <<o1.call, o2.call>>, <<>>, NoMode)

UpdatePlaylistName ==
    \E pid \in PlaylistIds :
        LET s == PlaylistSummary(PlaylistDescription(pid))
        IN \E o1 \in forward_action(Act("UpdateUserPlaylist", s), "logged_user", logged_user) :
           \E o2 \in forward_action(Act("UpdatePlaylistName", s), "browser", browser) :
              /\ logged_user' = o1.state
              /\ browser' = o2.state
              /\ UNCHANGED <<started, playback, selection, settings>>
              /\ Return(Act("UpdatePlaylistName", s),
                        UpdatePlaylistEvents(o1.events, o2.events),
                        <<o1.call, o2.call>>, <<>>, NoMode)

PlaybackAction ==
    \E n \in SubActionNames :
    \E o \in forward_action(Act(n, <<>>), "playback", playback) :
        /\ playback' = o.state
        /\ UNCHANGED <<started, browser, selection, logged_user, settings>>
        /\ Return(Act("PlaybackAction", Act(n, <<>>)), o.events, <<o.call>>, <<>>, NoMode)

BrowserAction ==
    \E n \in SubActionNames :
    \E o \in forward_action(Act(n, <<>>), "browser", browser) :
        /\ browser' = o.state
        /\ UNCHANGED <<started, playback, selection, logged_user, settings>>
        /\ Return(Act("BrowserAction", Act(n, <<>>)), o.events, <<o.call>>, <<>>, NoMode)

SelectionAction ==
    \E n \in SubActionNames :
    \E o \in forward_action(Act(n, <<>>), "selection", selection) :
        /\ selection' = o.state
        /\ UNCHANGED <<started, playback, browser, logged_user, settings>>
        /\ Return(Act("SelectionAction", Act(n, <<>>)), o.events, <<o.call>>, <<>>, NoMode)

LoginAction ==
    \E n \in SubActionNames :
    \E o \in forward_action(Act(n, <<>>), "logged_user", logged_user) :
        /\ logged_user' = o.state
        /\ UNCHANGED <<started, playback, browser, selection, settings>>
        /\ Return(Act("LoginAction", Act(n, <<>>)), o.events, <<o.call>>, <<>>, NoMode)

SettingsAction ==
    \E n \in SubActionNames :
    \E o \in forward_action(Act(n, <<>>), "settings", settings) :
        /\ settings' = o.state
        /\ UNCHANGED <<started, playback, browser, selection, logged_user>>
        /\ Return(Act("SettingsAction", Act(n, <<>>)), o.events, <<o.call>>, <<>>, NoMode)

(* _ => vec![]: the only message left for it is Start when its guard fails. *)
Unhandled ==
    /\ ~StartGuard
    /\ UNCHANGED state
    /\ Return(Act("Start", <<>>), <<>>, <<>>, <<>>, NoMode)

(* The states the exploration extends: update_state is dispatched on a      *)
(* queue of at most MaxQueue items. No arm has a condition on the queue:    *)
(* QueueSelection leads from such a state to a longer queue, the step and   *)
(* the state it reaches are checked, and the run is not followed beyond it. *)
Explored == Len(playback) <= MaxQueue

Next ==
    \/ Explored /\ Start
    \/ Explored /\ ShowNotification
    \/ Explored /\ ViewNowPlaying
    \/ Explored /\ Raise
    \/ Explored /\ QueueSelection
    \/ Explored /\ DequeueSelection
    \/ Explored /\ MoveDownSelection
    \/ Explored /\ MoveUpSelection
    \/ Explored /\ SaveSelection
    \/ Explored /\ UnsaveSelection
    \/ Explored /\ EnableSelection
    \/ Explored /\ CancelSelection
    \/ Explored /\ CreatePlaylist
    \/ Explored /\ UpdatePlaylistName
    \/ Explored /\ PlaybackAction
    \/ Explored /\ BrowserAction
    \/ Explored /\ SelectionAction
    \/ Explored /\ LoginAction
    \/ Explored /\ SettingsAction
    \/ Explored /\ Unhandled

Spec == Init /\ [][Next]_vars

NextQueue ==
    \/ Explored /\ QueueSelection
    \/ Explored /\ DequeueSelection
    \/ Explored /\ MoveDownSelection
    \/ Explored /\ MoveUpSelection
    \/ Explored /\ EnableSelection
    \/ Explored /\ CancelSelection
    \/ Explored /\ SelectionAction
    \/ Explored /\ PlaybackAction

SpecQueue == InitQueue /\ [][NextQueue]_vars

(* The arms the reducer handles itself, over two songs, with the substate   *)
(* updates that bring the selection, the queue and the home view into any   *)
(* state.                                                                   *)
InitHandled == Fresh /\ library = TwoSongs

NextHandled ==
    \/ Explored /\ Start
    \/ Explored /\ ShowNotification
    \/ Explored /\ ViewNowPlaying
    \/ Explored /\ Raise
    \/ Explored /\ QueueSelection
    \/ Explored /\ DequeueSelection
    \/ Explored /\ MoveDownSelection
    \/ Explored /\ MoveUpSelection
    \/ Explored /\ SaveSelection
    \/ Explored /\ UnsaveSelection
    \/ Explored /\ EnableSelection
    \/ Explored /\ CancelSelection
    \/ Explored /\ PlaybackAction
    \/ Explored /\ BrowserAction
    \/ Explored /\ SelectionAction
    \/ Explored /\ Unhandled

SpecHandled == InitHandled /\ [][NextHandled]_vars

----------------------------------------------------------------------------
(* AppAction::OpenURI.  A String is the sequence of its characters. *)

S_spotify == <<"s", "p", "o", "t", "i", "f", "y">>
S_http == <<"h", "t", "t", "p">>
S_spotif == <<"s", "p", "o", "t", "i", "f">>
S_album == <<"a", "l", "b", "u", "m">>
S_artist == <<"a", "r", "t", "i", "s", "t">>
S_playlist == <<"p", "l", "a", "y", "l", "i", "s", "t">>
S_user == <<"u", "s", "e", "r">>
S_track == <<"t", "r", "a", "c", "k">>
S_slashes == <<"/", "/", "/">>
S_host == <<"/", "/", "e", "x", "a", "m", "p", "l", "e", ".", "c", "o", "m">>
S_123 == <<"1", "2", "3">>
S_a == <<"a">>
S_empty == <<>>

Concat(a, b) == a \o b

(* str::split(':'): the segments between the separators, at least one. *)
RECURSIVE Split(_, _)
Split(str, sep) ==
    LET at == {i \in 1..Len(str) : str[i] = sep}
    IN IF at = {}
       THEN <<str>>
       ELSE LET i == CHOOSE x \in at : \A y \in at : x <= y
            IN <<SubSeq(str, 1, i - 1)>> \o Split(SubSeq(str, i + 1, Len(str)), sep)

(* str::strip_prefix: Some(rest) when str starts with prefix, None otherwise. *)
strip_prefix(str, prefix) ==
    IF Len(str) >= Len(prefix) /\ SubSeq(str, 1, Len(prefix)) = prefix
    THEN Some(SubSeq(str, Len(prefix) + 1, Len(str)))
    ELSE None

(* Option::filter(|p| !p.is_empty()) *)
filter_not_empty(o) == IF o.tag = "Some" /\ o.val /= <<>> THEN o ELSE None

NavigationPush(screen, id) ==
    Act("BrowserAction", Act("NavigationPush", [id |-> id, screen |-> screen]))

ViewAlbum(id) == NavigationPush("AlbumDetails", id)
ViewArtist(id) == NavigationPush("Artist", id)
ViewPlaylist(id) == NavigationPush("PlaylistDetails", id)
ViewUser(id) == NavigationPush("User", id)

OpenURI(str) ==
    LET parts == Split(str, ":")
    IN IF parts[1] /= S_spotify THEN None
       ELSE IF Len(parts) < 2 THEN None
       ELSE LET act == filter_not_empty(strip_prefix(parts[2], S_slashes))
            IN IF act.tag = "None" THEN None
               ELSE IF Len(parts) < 3 THEN None
               ELSE LET data == parts[3]
                    IN CASE act.val = S_album -> Some(ViewAlbum(data))
                         [] act.val = S_artist -> Some(ViewArtist(data))
                         [] act.val = S_playlist -> Some(ViewPlaylist(data))
                         [] act.val = S_user -> Some(ViewUser(data))
                         [] OTHER -> None

(* The strings given to OpenURI: up to MaxSegs segments joined by ':'. *)
Kinds == {S_album, S_artist, S_playlist, S_user}
FirstSegs == {S_spotify, S_http, S_spotif, S_empty}
KindSegs == Kinds \cup {S_track, S_empty}
SecondSegs ==
    KindSegs \cup {Concat(S_slashes, k) : k \in KindSegs}
             \cup {Concat(<<"/", "/">>, S_album), Concat(<<"/">>, Concat(S_slashes, S_album)), S_host}
RestSegs == {S_empty, S_123, S_a}

RECURSIVE Join(_)
Join(segs) ==
    IF Len(segs) = 1 THEN segs[1]
    ELSE segs[1] \o <<":">> \o Join(Tail(segs))

RECURSIVE SegListsOfLen(_)
SegListsOfLen(n) ==
    IF n = 1 THEN {<<f>> : f \in FirstSegs}
    ELSE {Append(l, x) : l \in SegListsOfLen(n - 1),
                         x \in IF n = 2 THEN SecondSegs ELSE RestSegs}

SegLists == UNION {SegListsOfLen(n) : n \in 1..MaxSegs}

ParseURI ==
    \E segs \in SegLists :
        /\ uri' = Join(segs)
        /\ parsed' = OpenURI(Join(segs))
        /\ UNCHANGED <<started, playback, browser, selection, logged_user, settings,
                       action, events, calls, aborted, startCount, taken, modeBefore,
                       library>>

NextURI == ParseURI

SpecURI == Init /\ [][NextURI]_vars

----------------------------------------------------------------------------
(* Helpers of the properties *)

LiftAll(wrapper, evs) == [i \in 1..Len(evs) |-> Lift(wrapper, evs[i])]

(* a occurs in b as a subsequence: all its items, in the same relative order. *)
IsSubseq(a, b) ==
    \E f \in [1..Len(a) -> 1..Len(b)] :
        /\ \A i \in 1..Len(a) : b[f[i]] = a[i]
        /\ \A i, j \in 1..Len(a) : i < j => f[i] < f[j]

QueueIds(q) == {q[i].id : i \in 1..Len(q)}

IsSelectionModeChanged(e) ==
    /\ e.tag = "SelectionEvent"
    /\ e.val.tag = "SelectionModeChanged"

----------------------------------------------------------------------------
(* C1: from a fresh AppState, the first Start dispatched returns exactly     *)
(* [Started] and every later Start returns the empty sequence, whatever was *)
(* dispatched in between.                                                    *)
C1_FirstStartOnly ==
    action.tag = "Start" =>
        /\ startCount >= 1
        /\ startCount = 1 => events = <<Started>>
        /\ startCount > 1 => events = <<>>

C1_Witness ==
    /\ action.tag = "Start"
    /\ startCount = 2
    /\ events = <<>>
    /\ started
    /\ playback /= <<>>

(* C2: ShowNotification(t), ViewNowPlaying and Raise each return exactly     *)
(* their one event (the notification with the same text t) and leave the    *)
(* started flag and the five substates unchanged.                           *)
C2_PureNotifications ==
    [][/\ action'.tag = "ShowNotification" =>
            /\ events' = <<NotificationShown(action'.val)>>
            /\ UNCHANGED state
       /\ action'.tag = "ViewNowPlaying" =>
            /\ events' = <<NowPlayingShown>>
            /\ UNCHANGED state
       /\ action'.tag = "Raise" =>
            /\ events' = <<Raised>>
            /\ UNCHANGED state]_vars

C2_Witness ==
    /\ action.tag = "ShowNotification"
    /\ action.val = "y"
    /\ events = <<NotificationShown("y")>>
    /\ started
    /\ selection.songs /= <<>>
    /\ ~browser.home

(* C3: QueueSelection returns exactly [SelectionModeChanged(false),          *)
(* PlaylistChanged]; afterwards the selection buffer is empty and the queue *)
(* holds every previously selected item in the selection's relative order   *)
(* (exactly those items, in that order, when the queue was empty).          *)
C3_QueueSelection ==
    [][action'.tag = "QueueSelection" =>
          /\ events' = <<SelectionModeChanged(FALSE), PlaylistChanged>>
          /\ selection'.songs = <<>>
          /\ IsSubseq(selection.songs, playback')
          /\ playback = <<>> => playback' = selection.songs]_vars

C3_Witness ==
    /\ action.tag = "QueueSelection"
    /\ Len(taken) = 2
    /\ playback = <<SongDescription("C")>> \o taken
    /\ selection.songs = <<>>

(* C4: MoveUpSelection returns exactly [PlaylistChanged] when the first      *)
(* item of the selection is in the playback queue, at any position, and the *)
(* empty sequence when the selection is empty or that item is not queued.   *)
C4_MoveUpSelection ==
    [][action'.tag = "MoveUpSelection" =>
          events' = IF /\ selection.songs /= <<>>
                       /\ Head(selection.songs).id \in QueueIds(playback)
                    THEN <<PlaylistChanged>>
                    ELSE <<>>]_vars

C4_Witness ==
    /\ action.tag = "MoveUpSelection"
    /\ events = <<PlaylistChanged>>
    /\ Len(selection.songs) = 2
    /\ Len(playback) = 3
    /\ playback[1] = Head(selection.songs)
    /\ selection.songs[2] \notin Range(playback)

(* C5: EnableSelection(C) while selection mode is active with context C, and *)
(* CancelSelection while selection mode is inactive, return the empty        *)
(* sequence and leave the whole composite state unchanged.                  *)
C5_ModeNoOp ==
    [][/\ (/\ action'.tag = "EnableSelection"
           /\ selection.active
           /\ selection.context = action'.val) =>
            /\ events' = <<>>
            /\ UNCHANGED state
       /\ (action'.tag = "CancelSelection" /\ ~selection.active) =>
            /\ events' = <<>>
            /\ UNCHANGED state]_vars

C5_Witness ==
    /\ action.tag = "EnableSelection"
    /\ modeBefore.active
    /\ modeBefore.context = action.val
    /\ events = <<>>
    /\ selection.songs /= <<>>

(* C6: EnableSelection(D) while selection mode is active with a context C    *)
(* different from D returns exactly one SelectionModeChanged event.         *)
C6_ModeSwitch ==
    [][(/\ action'.tag = "EnableSelection"
        /\ selection.active
        /\ selection.context /= action'.val) =>
          /\ Len(events') = 1
          /\ IsSelectionModeChanged(events'[1])]_vars

C6_Witness ==
    /\ action.tag = "EnableSelection"
    /\ modeBefore.active
    /\ modeBefore.context /= action.val
    /\ Len(events) = 1
    /\ selection.context = action.val

(* C7: CreatePlaylist(P) updates the session substate with                   *)
(* PrependUserPlaylist([P]) and then the browser substate with              *)
(* PrependPlaylistsContent([P]), and returns the session's events, then the *)
(* browser's events, then exactly one PlaylistCreatedNotificationShown(id   *)
(* of P) as the last element and nowhere else.                              *)
C7_CreatePlaylist ==
    action.tag = "CreatePlaylist" =>
        /\ Len(calls) = 2
        /\ calls[1].target = "logged_user"
        /\ calls[1].action = Act("PrependUserPlaylist", <<PlaylistSummary(action.val)>>)
        /\ calls[2].target = "browser"
        /\ calls[2].action = Act("PrependPlaylistsContent", <<action.val>>)
        /\ events = LiftAll("LoginEvent", calls[1].returned)
                    \o LiftAll("BrowserEvent", calls[2].returned)
                    \o <<PlaylistCreatedNotificationShown(action.val.id)>>
        /\ \A i \in 1..(Len(events) - 1) :
              events[i].tag /= "PlaylistCreatedNotificationShown"

C7_Witness ==
    /\ action.tag = "CreatePlaylist"
    /\ action.val.id = "pl1"
    /\ Len(calls) = 2
    /\ calls[1].returned /= <<>>
    /\ calls[2].returned /= <<>>
    /\ events[Len(events)] = PlaylistCreatedNotificationShown("pl1")

(* C8: for every recognized kind k and non-empty id, OpenURI("spotify:k:id") *)
(* returns the navigate-to-k action for id, the same action it returns for  *)
(* the slash-prefixed form "spotify:///k:id".                               *)
ViewOf(k, id) ==
    CASE k = S_album -> ViewAlbum(id)
      [] k = S_artist -> ViewArtist(id)
      [] k = S_playlist -> ViewPlaylist(id)
      [] k = S_user -> ViewUser(id)

C8_BareFormAccepted ==
    \A k \in Kinds : \A id \in RestSegs \ {S_empty} :
        uri = Join(<<S_spotify, k, id>>) =>
            /\ parsed = Some(ViewOf(k, id))
            /\ parsed = OpenURI(Join(<<S_spotify, Concat(S_slashes, k), id>>))

(* C9: OpenURI returns no action for every malformed input: a first segment  *)
(* other than "spotify", fewer or more than three segments, a second        *)
(* segment that, leading slashes stripped, is empty or no recognized kind,  *)
(* or an empty third segment.                                               *)
RECURSIVE StripSlashes(_)
StripSlashes(str) ==
    IF str /= <<>> /\ Head(str) = "/" THEN StripSlashes(Tail(str)) ELSE str

Malformed(str) ==
    LET parts == Split(str, ":")
    IN \/ parts[1] /= S_spotify
       \/ Len(parts) /= 3
       \/ StripSlashes(parts[2]) \notin Kinds
       \/ parts[3] = <<>>

C9_MalformedRejected == Malformed(uri) => parsed = None

(* C10: update_state aborts exactly when SaveSelection or UnsaveSelection is *)
(* dispatched while the browser's home view is absent; every other dispatch *)
(* returns an event sequence.                                               *)
C10_OnlyAbort ==
    [][aborted' <=> (/\ action'.tag \in {"SaveSelection", "UnsaveSelection"}
                     /\ ~browser.home)]_vars

C10_Witness ==
    /\ aborted
    /\ action.tag = "SaveSelection"
    /\ ~browser.home
    /\ taken /= <<>>

(* C11: a dispatch that does not complete (SaveSelection or UnsaveSelection  *)
(* aborting on an absent home view) leaves the composite state as it was:   *)
(* the selection buffer is not drained and the selection mode not changed.  *)
C11_AbortLeavesState == [][aborted' => UNCHANGED state]_vars

(* C12: the started flag changes only through a Start dispatched while it is *)
(* false, never goes back from true to false, no other action changes it,   *)
(* and the Started event is emitted at most once over all dispatches (only  *)
(* by the dispatch that sets the flag).                                     *)
C12_StartedMonotone ==
    [][/\ started => started'
       /\ started' /= started => (action'.tag = "Start" /\ ~started)
       /\ Started \in Range(events') => (~started /\ started')]_vars

C12_Witness ==
    /\ started
    /\ startCount = 2
    /\ action.tag = "BrowserAction"
    /\ selection.active

(* C13: with the home view present, SaveSelection (UnsaveSelection) drains   *)
(* the selection, forwards SaveTracks(drained items) (RemoveSavedTracks(    *)
(* drained identifiers)) to the home view, and returns the home view's      *)
(* events in order followed by exactly one SelectionModeChanged(false), the *)
(* last element.                                                            *)
C13_SaveForwardsToHome ==
    (action.tag \in {"SaveSelection", "UnsaveSelection"} /\ ~aborted) =>
        /\ browser.home
        /\ selection.songs = <<>>
        /\ Len(calls) = 1
        /\ calls[1].target = "home"
        /\ action.tag = "SaveSelection" => calls[1].action = Act("SaveTracks", taken)
        /\ action.tag = "UnsaveSelection" =>
              calls[1].action = Act("RemoveSavedTracks", [i \in 1..Len(taken) |-> taken[i].id])
        /\ events = LiftAll("BrowserEvent", calls[1].returned)
                    \o <<SelectionModeChanged(FALSE)>>
        /\ \A i \in 1..(Len(events) - 1) : ~IsSelectionModeChanged(events[i])

C13_Witness ==
    /\ action.tag = "UnsaveSelection"
    /\ ~aborted
    /\ taken /= <<>>
    /\ Len(events) = MaxSubEvents + 1
    /\ events[Len(events)] = SelectionModeChanged(FALSE)

(* C14: the SelectionModeChanged event of EnableSelection/CancelSelection    *)
(* carries the new flag: EnableSelection from an inactive mode returns      *)
(* exactly [SelectionModeChanged(true)] and the mode is active afterwards,  *)
(* CancelSelection from an active mode returns exactly                      *)
(* [SelectionModeChanged(false)] and the mode is inactive afterwards, and   *)
(* an event is emitted exactly when set_mode reports a transition.          *)
C14_ModeEventCarriesNewFlag ==
    [][/\ (action'.tag = "EnableSelection" /\ ~selection.active) =>
            /\ events' = <<SelectionModeChanged(TRUE)>>
            /\ selection'.active
       /\ (action'.tag = "CancelSelection" /\ selection.active) =>
            /\ events' = <<SelectionModeChanged(FALSE)>>
            /\ ~selection'.active
       /\ action'.tag = "EnableSelection" =>
            (events' /= <<>> <=> set_mode(selection, Some(action'.val)).ret.tag = "Some")
       /\ action'.tag = "CancelSelection" =>
            (events' /= <<>> <=> set_mode(selection, None).ret.tag = "Some")
       /\ (action'.tag \in {"EnableSelection", "CancelSelection"} /\ events' /= <<>>) =>
            events' = <<SelectionModeChanged(selection'.active)>>]_vars

(* C15: MoveUpSelection and MoveDownSelection leave the selection substate   *)
(* (contents, cursor, mode) unchanged and move at most one playback item    *)
(* per call, the first item of the selection, one position up or down; so   *)
(* repeated calls with the selection untouched always target that item.     *)
C15_MoveTouchesFirstOnly ==
    [][/\ action'.tag \in {"MoveUpSelection", "MoveDownSelection"} =>
            /\ selection' = selection
            /\ UNCHANGED <<started, browser, logged_user, settings>>
       /\ (action'.tag = "MoveUpSelection" /\ playback' /= playback) =>
            /\ selection.songs /= <<>>
            /\ \E i \in 2..Len(playback) :
                  /\ playback[i].id = Head(selection.songs).id
                  /\ playback' = Swap(playback, i - 1, i)
       /\ (action'.tag = "MoveDownSelection" /\ playback' /= playback) =>
            /\ selection.songs /= <<>>
            /\ \E i \in 1..(Len(playback) - 1) :
                  /\ playback[i].id = Head(selection.songs).id
                  /\ playback' = Swap(playback, i, i + 1)]_vars

C15_Witness ==
    /\ action.tag = "MoveDownSelection"
    /\ events = <<PlaylistChanged>>
    /\ selection.songs = <<SongDescription("A"), SongDescription("B")>>
    /\ playback = <<SongDescription("B"), SongDescription("C"), SongDescription("A")>>

(* C16: DequeueSelection drains the selection, removes from the playback     *)
(* queue exactly the items whose ids were selected, keeps the other items   *)
(* in their relative order, and returns exactly                             *)
(* [SelectionModeChanged(false), PlaylistChanged].                          *)
C16_DequeueSelection ==
    [][action'.tag = "DequeueSelection" =>
          LET gone == {selection.songs[i].id : i \in 1..Len(selection.songs)}
              kept == {i \in 1..Len(playback) : playback[i].id \notin gone}
          IN /\ events' = <<SelectionModeChanged(FALSE), PlaylistChanged>>
             /\ selection'.songs = <<>>
             /\ QueueIds(playback') \cap gone = {}
             /\ Len(playback') = Cardinality(kept)
             /\ IsSubseq(playback', playback)]_vars

C16_Witness ==
    /\ action.tag = "DequeueSelection"
    /\ taken = <<SongDescription("B")>>
    /\ playback = <<SongDescription("A"), SongDescription("C")>>
    /\ selection = DefaultSelection

(* C17: a substate-scoped action is passed unchanged to its owning           *)
(* substate's update_with, and to no other; the returned sequence is that   *)
(* substate's events lifted one to one in the same order; the started flag  *)
(* and the four other substates are unchanged.                              *)
OwnerOf(tag) ==
    CASE tag = "PlaybackAction" -> "playback"
      [] tag = "BrowserAction" -> "browser"
      [] tag = "SelectionAction" -> "selection"
      [] tag = "LoginAction" -> "logged_user"
      [] tag = "SettingsAction" -> "settings"

ScopedTags ==
    {"PlaybackAction", "BrowserAction", "SelectionAction", "LoginAction", "SettingsAction"}

C17_ForwardVerbatim ==
    [][action'.tag \in ScopedTags =>
          LET owner == OwnerOf(action'.tag)
          IN /\ Len(calls') = 1
             /\ calls'[1].target = owner
             /\ calls'[1].action = action'.val
             /\ Len(events') = Len(calls'[1].returned)
             /\ \A i \in 1..Len(events') :
                   events'[i] = Ev(EventWrapper(owner), calls'[1].returned[i])
             /\ started' = started
             /\ owner /= "playback" => playback' = playback
             /\ owner /= "browser" => browser' = browser
             /\ owner /= "selection" => selection' = selection
             /\ owner /= "logged_user" => logged_user' = logged_user
             /\ owner /= "settings" => settings' = settings]_vars

C17_Witness ==
    /\ action.tag = "SettingsAction"
    /\ action.val.tag = "a2"
    /\ Len(events) = MaxSubEvents
    /\ settings = 1
    /\ started
    /\ selection.songs /= <<>>

(* C18: UpdatePlaylistName(s) updates the session substate first and the     *)
(* browser substate second, and returns exactly the session's events        *)
(* followed by the browser's events, nothing added: the empty sequence when *)
(* neither substate emits an event.                                         *)
C18_UpdatePlaylistName ==
    action.tag = "UpdatePlaylistName" =>
        /\ Len(calls) = 2
        /\ calls[1].target = "logged_user"
        /\ calls[1].action = Act("UpdateUserPlaylist", action.val)
        /\ calls[2].target = "browser"
        /\ calls[2].action = Act("UpdatePlaylistName", action.val)
        /\ events = LiftAll("LoginEvent", calls[1].returned)
                    \o LiftAll("BrowserEvent", calls[2].returned)
        /\ (calls[1].returned = <<>> /\ calls[2].returned = <<>>) => events = <<>>

C18_Witness ==
    /\ action.tag = "UpdatePlaylistName"
    /\ action.val.id = "pl2"
    /\ Len(calls) = 2
    /\ calls[1].returned /= <<>>
    /\ calls[2].returned /= <<>>
    /\ Len(events) = 2 * MaxSubEvents

(* C19: for every action the reducer handles itself, a returned empty event  *)
(* sequence implies that the dispatch left the composite state unchanged.   *)
HandledTags ==
    {"Start", "Raise", "ShowNotification", "ViewNowPlaying", "QueueSelection",
     "DequeueSelection", "MoveUpSelection", "MoveDownSelection", "SaveSelection",
     "UnsaveSelection", "EnableSelection", "CancelSelection"}

C19_NoSilentChange ==
    [][(action'.tag \in HandledTags /\ ~aborted' /\ events' = <<>>) =>
          UNCHANGED state]_vars

C19_Witness ==
    /\ action.tag = "MoveUpSelection"
    /\ events = <<>>
    /\ ~aborted
    /\ selection.songs = <<SongDescription("B")>>
    /\ playback = <<SongDescription("A"), SongDescription("A")>>
    /\ started
    /\ startCount = 2
    /\ ~browser.home

====
